---------------------------- MODULE Spec2Model ----------------------------
(***************************************************************************)
(* Model of smile_cam/backend/app.py: the /predict handler of the Flask    *)
(* service (run with threaded=True, one thread per request, one shared     *)
(* module-level landmarker) and the pure scoring function                  *)
(* calculate_smile_score.                                                  *)
(*                                                                         *)
(* Numbers.  Coordinates are Python floats in [0,1].  They are modelled as *)
(* exact fixed-point integers with Unit units per 1.0.  Every input        *)
(* coordinate lies on the 1/1000 grid (a multiple of Unit/1000 = 20), so   *)
(* each division the code performs (/5, /2, /2) is exact in the model.     *)
(* The returned score, rounded by the code to 3 decimals, is modelled in   *)
(* thousandths (0 .. 1000).  Rounding error of binary floating point       *)
(* (errors of a few ulp) is not modelled.                                  *)
(***************************************************************************)
EXTENDS Integers, Sequences, FiniteSets, TLC

VARIABLES
    pc,        \* pc[r]: where the handler of request r stands
    body,      \* body[r]: the class of the request body being handled
    det,       \* det[r]: detection_result, once landmarker.detect returned
    resp,      \* resp[r]: the responses the handler has returned, in order
    memo       \* one earlier call of calculate_smile_score: its argument
               \* and what it returned (history, read by no action)

vars == <<pc, body, det, resp, memo>>

(***************************************************************************)
(* Bounds of the model.                                                    *)
(***************************************************************************)
NReq == 2                      \* concurrently handled requests (threads)

Req == 1 .. NReq

(***************************************************************************)
(* Fixed-point representation and the constants of the source.             *)
(***************************************************************************)
Unit == 20000                  \* units per 1.0 of a normalized coordinate
M(milli) == milli * (Unit \div 1000)   \* a coordinate given in thousandths

MOUTH_CORNERS_LEFT == 61
MOUTH_CORNERS_RIGHT == 291
MOUTH_UPPER_POINTS == <<61, 185, 40, 39, 37, 0, 267, 269, 270, 409, 291>>
MOUTH_LOWER_POINTS == <<146, 91, 181, 84, 17, 314, 405, 321, 375>>

MAX_MOUTH_OPENNESS == 1600     \* 0.08  in units
ELEVATION_FLOOR == 100         \* 0.005 in units
ELEVATION_SPAN == 700          \* 0.035 in units
SMILE_THRESHOLD == 500         \* 0.5   in thousandths of score
SCORE_ONE == 1000              \* 1.0   in thousandths of score

(***************************************************************************)
(* Landmark sets.  A landmark set is a sequence of points indexed from 0;  *)
(* the model keeps its length and the points at the indices any of the     *)
(* mouth tables names (TrackedIdx); no other index is ever read.           *)
(***************************************************************************)
Range(s) == {s[i] : i \in 1 .. Len(s)}

TrackedIdx == Range(MOUTH_UPPER_POINTS) \cup Range(MOUTH_LOWER_POINTS)

UpperRest == {185, 40, 39}     \* upper sample without the corner and 37
LowerSample == {146, 91, 181, 84, 17}

CornerYs == {M(370), M(385), M(410)}
UpperYs == {M(400), M(410)}
UpperDips == {M(0), M(10)}
LowerYs == {M(420), M(480), M(500)}
OtherYs == {M(0), M(20)}
Xs == {M(250), M(750)}
Lens == {100, 468, 478}

MkLandmarks(yl, yr, u, du, l, o, x, n) ==
    [len |-> n,
     pt  |-> [i \in TrackedIdx |->
                [x |-> x,
                 y |-> IF i = MOUTH_CORNERS_LEFT THEN yl
                       ELSE IF i = MOUTH_CORNERS_RIGHT THEN yr
                       ELSE IF i \in UpperRest THEN u
                       ELSE IF i = 37 THEN u - du
                       ELSE IF i \in LowerSample THEN l
                       ELSE o]]]

LandmarkSets ==
    {MkLandmarks(yl, yr, u, du, l, o, x, n) :
        yl \in CornerYs, yr \in CornerYs, u \in UpperYs, du \in UpperDips,
        l \in LowerYs, o \in OtherYs, x \in Xs, n \in Lens}

\* What landmarker.detect can return: face_landmarks is None, an empty
\* list, or a list holding one landmark set (num_faces = 1).
NoFaceResults ==
    {[is_none |-> TRUE, face_landmarks |-> <<>>],
     [is_none |-> FALSE, face_landmarks |-> <<>>]}

FaceResult(L) == [is_none |-> FALSE, face_landmarks |-> <<L>>]

DetectionResults == NoFaceResults \cup {FaceResult(L) : L \in LandmarkSets}


(***************************************************************************)
(* calculate_smile_score, app.py lines 43-79.                              *)
(***************************************************************************)
Max(a, b) == IF a >= b THEN a ELSE b
Min(a, b) == IF a <= b THEN a ELSE b

\* Mutant: the slice one too long, [:6].
First6(s) == SubSeq(s, 1, Min(6, Len(s)))

\* s[:5]
First5(s) == SubSeq(s, 1, Min(5, Len(s)))

\* landmarks[i] raises IndexError unless 0 <= i < len(landmarks)
InRange(landmarks, i) == i < landmarks.len

\* sum(landmarks[i].y for i in idxs)
RECURSIVE SumY(_, _)
SumY(landmarks, idxs) ==
    IF idxs = <<>> THEN 0
    ELSE landmarks.pt[Head(idxs)].y + SumY(landmarks, Tail(idxs))

\* Mutant: `is None` in place of the truthiness test.
NoLandmarksOnlyNone(result) == result.is_none

\* `not face_landmarker_result.face_landmarks`: None and [] are both falsy
NoLandmarks(result) == result.is_none \/ result.face_landmarks = <<>>

upper_y(landmarks) == SumY(landmarks, First5(MOUTH_UPPER_POINTS)) \div 5
lower_y(landmarks) == SumY(landmarks, First5(MOUTH_LOWER_POINTS)) \div 5
center_y(landmarks) == (upper_y(landmarks) + lower_y(landmarks)) \div 2
mouth_height(landmarks) == lower_y(landmarks) - upper_y(landmarks)

\* Mutant: >= in place of >.
MouthOpenInclusive(landmarks) == mouth_height(landmarks) >= MAX_MOUTH_OPENNESS

\* Mutant: a threshold kept in module state and tightened by an earlier call.
MouthOpenStateful(landmarks) ==
    mouth_height(landmarks) > (IF memo.set THEN 0 ELSE MAX_MOUTH_OPENNESS)

\* if mouth_height > 0.08: return 0.0
MouthOpen(landmarks) == mouth_height(landmarks) > MAX_MOUTH_OPENNESS

\* Mutant: the max(0, ...) dropped.
ElevationSigned(landmarks, corner) ==
    center_y(landmarks) - landmarks.pt[corner].y

\* max(0, center_y - corner.y)
Elevation(landmarks, corner) ==
    Max(0, center_y(landmarks) - landmarks.pt[corner].y)

avg_elevation(landmarks) ==
    (Elevation(landmarks, MOUTH_CORNERS_LEFT)
       + Elevation(landmarks, MOUTH_CORNERS_RIGHT)) \div 2

\* Mutant: the min(1.0, ...) dropped.
ClampNoCeiling(num, den) == Max(0, num)

\* min(1.0, max(0.0, num / den)), kept as a numerator over den
Clamp(num, den) == Min(den, Max(0, num))

\* round(num / den, 3) in thousandths, for 0 <= num <= den.  On the 1/1000
\* input grid num / den = k / 700 never lies half way between two
\* thousandths (10k/7 = j + 1/2 has no integer solution), so the tie rule of
\* round() plays no part.
Round3(num, den) == (2 * SCORE_ONE * num + den) \div (2 * den)

\* The indices the function reads from landmarks, in the order it reads them.
IndicesRead ==
    <<MOUTH_CORNERS_LEFT, MOUTH_CORNERS_RIGHT>>
        \o First5(MOUTH_UPPER_POINTS) \o First5(MOUTH_LOWER_POINTS)

Returned(v) == [raised |-> FALSE, value |-> v]
Raised(e) == [raised |-> TRUE, exc |-> e]

calculate_smile_score(result) ==
    IF NoLandmarks(result) THEN Returned(0)
    ELSE IF result.is_none THEN Raised("TypeError")            \* None[0]
    ELSE IF result.face_landmarks = <<>> THEN Raised("IndexError") \* [][0]
    ELSE LET landmarks == result.face_landmarks[1] IN
         IF \E k \in 1 .. Len(IndicesRead) : ~InRange(landmarks, IndicesRead[k])
         THEN Raised("IndexError")
         ELSE IF MouthOpen(landmarks) THEN Returned(0)
         ELSE Returned(Round3(Clamp(avg_elevation(landmarks) - ELEVATION_FLOOR,
                                    ELEVATION_SPAN),
                              ELEVATION_SPAN))

\* Mutant: >= in place of >.
SmileDetectedInclusive(score) == score >= SMILE_THRESHOLD

\* smile_detected = score > 0.5
SmileDetected(score) == score > SMILE_THRESHOLD

(***************************************************************************)
(* The /predict handler, app.py lines 85-119, run by one thread per        *)
(* request (app.run(..., threaded=True), line 145).  The threads share     *)
(* only the module-level landmarker (line 35).                             *)
(***************************************************************************)

\* Request bodies, by the first line of the handler that treats them apart.
Bodies ==
    {"not_json",       \* request.get_json() raises (line 88)
     "json_null",      \* data is None: 'image' in data raises (line 89)
     "no_image_key",   \* a JSON object without 'image' (lines 89-90)
     "no_comma",       \* data['image'] has no ",": unpacking raises (line 92)
     "bad_base64",     \* base64.b64decode raises (line 93)
     "empty_buffer",   \* cv2.imdecode raises on an empty buffer (line 95)
     "not_an_image",   \* cv2.imdecode returns None (lines 95-98)
     "valid_image"}    \* decodes to an image

NoBody == "none"
NoResult == [pending |-> TRUE]   \* detection_result not assigned yet
NoMemo == [set |-> FALSE]

\* The detection results the server specification draws from: symmetric
\* corners, a closed and an open mouth, one landmark set too short to index.
ServerLandmarks ==
    {MkLandmarks(c, c, M(400), M(10), l, M(20), M(250), 478) :
        c \in CornerYs, l \in {M(420), M(500)}}
    \cup {MkLandmarks(M(370), M(370), M(400), M(10), M(420), M(20), M(250), 100)}

ServerResults == NoFaceResults \cup {FaceResult(L) : L \in ServerLandmarks}

\* jsonify({...}), status
Json(status, fields) == [status |-> status, json |-> fields]

\* Mutant: `except ValueError`, every other exception leaves the handler.
ExceptNarrow(e) ==
    IF e = "ValueError" THEN Json(500, [error |-> e])
    ELSE [status |-> 500, unhandled |-> e]

\* except Exception as e: return jsonify({'error': str(e)}), 500
Except(e) == Json(500, [error |-> e])

\* Lines 88-104: what the handler does before it calls landmarker.detect.
Decode(b) ==
    CASE b = "not_json"     -> [kind |-> "raise", exc |-> "BadRequest"]
      [] b = "json_null"    -> [kind |-> "raise", exc |-> "TypeError"]
      [] b = "no_image_key" -> [kind |-> "return",
                                resp |-> Json(400, [error |-> "No image data"])]
      [] b = "no_comma"     -> [kind |-> "raise", exc |-> "ValueError"]
      [] b = "bad_base64"   -> [kind |-> "raise", exc |-> "binascii.Error"]
      [] b = "empty_buffer" -> [kind |-> "raise", exc |-> "cv2.error"]
      [] b = "not_an_image" -> [kind |-> "return",
                                resp |-> Json(400, [error |-> "Decode failed"])]
      [] OTHER              -> [kind |-> "continue"]

Init ==
    /\ pc = [r \in Req |-> "idle"]
    /\ body = [r \in Req |-> NoBody]
    /\ det = [r \in Req |-> NoResult]
    /\ resp = [r \in Req |-> <<>>]
    /\ memo = NoMemo

\* A request arrives and a thread starts predict_smile for it.
Request(r) ==
    /\ pc[r] = "idle"
    /\ \E b \in Bodies : body' = [body EXCEPT ![r] = b]
    /\ pc' = [pc EXCEPT ![r] = "decode"]
    /\ det' = [det EXCEPT ![r] = NoResult]
    /\ resp' = [resp EXCEPT ![r] = <<>>]
    /\ UNCHANGED memo

\* Lines 88-104.
DecodeImage(r) ==
    /\ pc[r] = "decode"
    /\ LET d == Decode(body[r]) IN
         CASE d.kind = "return" ->
                /\ resp' = [resp EXCEPT ![r] = Append(@, d.resp)]
                /\ pc' = [pc EXCEPT ![r] = "done"]
           [] d.kind = "raise" ->
                /\ resp' = [resp EXCEPT ![r] = Append(@, Except(d.exc))]
                /\ pc' = [pc EXCEPT ![r] = "done"]
           [] OTHER ->
                /\ pc' = [pc EXCEPT ![r] = "detect"]
                /\ UNCHANGED resp
    /\ UNCHANGED <<body, det, memo>>

\* Line 107, the call: nothing guards the entry to landmarker.detect.
DetectCall(r) ==
    /\ pc[r] = "detect"
    /\ pc' = [pc EXCEPT ![r] = "detecting"]
    /\ UNCHANGED <<body, det, resp, memo>>

\* Line 107, the return: a result, or an exception of the detector.
DetectReturn(r) ==
    /\ pc[r] = "detecting"
    /\ \/ \E result \in ServerResults :
            /\ det' = [det EXCEPT ![r] = result]
            /\ pc' = [pc EXCEPT ![r] = "score"]
            /\ UNCHANGED resp
       \/ /\ resp' = [resp EXCEPT ![r] = Append(@, Except("RuntimeError"))]
          /\ pc' = [pc EXCEPT ![r] = "done"]
          /\ UNCHANGED det
    /\ UNCHANGED <<body, memo>>

\* Lines 109-115 (and 117-119 when scoring raises).
Score(r) ==
    /\ pc[r] = "score"
    /\ LET s == calculate_smile_score(det[r]) IN
         /\ resp' = [resp EXCEPT ![r] =
                IF s.raised THEN Append(@, Except(s.exc))
                ELSE Append(@, Json(200, [smile |-> SmileDetected(s.value),
                                          score |-> s.value]))]
         /\ \/ memo' = [set |-> TRUE, arg |-> det[r], ret |-> s]
            \/ UNCHANGED memo
    /\ pc' = [pc EXCEPT ![r] = "done"]
    /\ UNCHANGED <<body, det>>

\* The response is sent; the thread ends and its locals are gone.
Finish(r) ==
    /\ pc[r] = "done"
    /\ pc' = [pc EXCEPT ![r] = "idle"]
    /\ body' = [body EXCEPT ![r] = NoBody]
    /\ det' = [det EXCEPT ![r] = NoResult]
    /\ resp' = [resp EXCEPT ![r] = <<>>]
    /\ UNCHANGED memo

Next ==
    \E r \in Req :
        \/ Request(r)
        \/ DecodeImage(r)
        \/ DetectCall(r)
        \/ DetectReturn(r)
        \/ Score(r)
        \/ Finish(r)

Spec == Init /\ [][Next]_vars

(***************************************************************************)
(* The scoring function alone: one call of calculate_smile_score (through  *)
(* the handler's lines 109-115) on every detection result of the grid.     *)
(***************************************************************************)
InitScore ==
    /\ \E r \in Req :
         /\ pc = [q \in Req |-> IF q = r THEN "score" ELSE "idle"]
         /\ body = [q \in Req |-> IF q = r THEN "valid_image" ELSE NoBody]
         /\ \E result \in DetectionResults :
              det = [q \in Req |-> IF q = r THEN result ELSE NoResult]
    /\ resp = [r \in Req |-> <<>>]
    /\ memo = NoMemo

NextScore == \E r \in Req : Score(r)

SpecScore == InitScore /\ [][NextScore]_vars

(***************************************************************************)
(* Properties.  The helpers below restate the quantities the properties    *)
(* speak of directly from the landmark indices, not through the operators  *)
(* of the model above.                                                     *)
(***************************************************************************)
Done200(r) == pc[r] = "done" /\ Len(resp[r]) = 1 /\ resp[r][1].status = 200

HasFace(r) ==
    /\ det[r] # NoResult
    /\ ~det[r].is_none
    /\ det[r].face_landmarks # <<>>

FaceOf(r) == det[r].face_landmarks[1]

ElevenIdx == {61, 291, 185, 40, 39, 37, 146, 91, 181, 84, 17}

Populated(L) == \A i \in ElevenIdx : i < L.len

\* 5 * upper_y and 5 * lower_y
UpperSum(L) == L.pt[61].y + L.pt[185].y + L.pt[40].y + L.pt[39].y + L.pt[37].y
LowerSum(L) == L.pt[146].y + L.pt[91].y + L.pt[181].y + L.pt[84].y + L.pt[17].y

\* lower_y - upper_y > 0.08, both sides times 5
GateOpen(L) == LowerSum(L) - UpperSum(L) > 5 * M(80)

\* 10 * max(0, center_y - L[corner].y)
Elev10(L, corner) ==
    LET d == UpperSum(L) + LowerSum(L) - 10 * L.pt[corner].y
    IN  IF d > 0 THEN d ELSE 0

\* 20 * avg_elevation
Avg20(L) == Elev10(L, 61) + Elev10(L, 291)

\* k thousandths is round3(clamp01((avg_elevation - 0.005) / 0.035)):
\* with q = (Avg20 - 20 * 0.005) / (20 * 0.035) clamped to [0, 1], k is the
\* thousandth nearest to q, |1000 q - k| <= 1/2.
IsScaledScore(L, k) ==
    LET num == Avg20(L) - 20 * M(5)
        den == 20 * M(35)
        c   == IF num < 0 THEN 0 ELSE IF num > den THEN den ELSE num
        e   == 2 * 1000 * c - 2 * k * den
    IN  /\ k \in 0 .. 1000
        /\ e <= den
        /\ -e <= den

SetLeftY(L, y) == [L EXCEPT !.pt[61].y = y]

\* C1: with every other point fixed, lowering the y-coordinate of the left
\* mouth corner (index 61) never lowers the score.
C1_LeftCornerMonotone ==
    \A r \in Req :
        (Done200(r) /\ HasFace(r)) =>
            \A y \in CornerYs :
                y < FaceOf(r).pt[61].y =>
                    LET s == calculate_smile_score(FaceResult(SetLeftY(FaceOf(r), y)))
                    IN  ~s.raised /\ s.value >= resp[r][1].json.score

\* C2: whenever lower_y - upper_y > 0.08 the score is 0.0 and smile is
\* false, whatever the corners are; at a height of exactly 0.08 or less the
\* gate does not fire and the score is the scaled corner elevation.
C2_OpennessGate ==
    \A r \in Req :
        (pc[r] = "done" /\ HasFace(r) /\ Populated(FaceOf(r))) =>
            /\ Done200(r)
            /\ GateOpen(FaceOf(r)) =>
                  resp[r][1].json = [smile |-> FALSE, score |-> 0]
            /\ ~GateOpen(FaceOf(r)) =>
                  IsScaledScore(FaceOf(r), resp[r][1].json.score)

\* The gate has zeroed a score that the raised corners alone would have put
\* at 1.0.
C2_Witness ==
    \E r \in Req :
        /\ Done200(r) /\ HasFace(r)
        /\ GateOpen(FaceOf(r))
        /\ IsScaledScore(FaceOf(r), 1000)
        /\ resp[r][1].json.score = 0

\* C3: when the detection result carries no landmark set (face_landmarks
\* None or empty) scoring returns 0.0 without raising and /predict answers
\* smile = false, score = 0.0, not an error.
C3_NoFace ==
    \A r \in Req :
        (pc[r] = "done" /\ det[r] \in NoFaceResults) =>
            resp[r] = <<Json(200, [smile |-> FALSE, score |-> 0])>>

C3_Witness ==
    \E r \in Req :
        /\ pc[r] = "done"
        /\ det[r] = [is_none |-> FALSE, face_landmarks |-> <<>>]
        /\ Done200(r)

\* C4: on every return path the score lies in [0.0, 1.0].
C4_Bounded ==
    \A r \in Req :
        (pc[r] = "done" /\ det[r] # NoResult
            /\ (HasFace(r) => Populated(FaceOf(r)))) =>
                /\ Done200(r)
                /\ resp[r][1].json.score >= 0
                /\ resp[r][1].json.score <= 1000

\* The scaled path has clamped an elevation above 0.04 to the score 1.0.
C4_Witness ==
    \E r \in Req :
        /\ Done200(r) /\ HasFace(r)
        /\ ~GateOpen(FaceOf(r))
        /\ Avg20(FaceOf(r)) > 20 * M(40)
        /\ resp[r][1].json.score = 1000

\* C5: in every successful /predict response smile is true iff the (rounded)
\* score of the same response is strictly greater than 0.5.
C5_Threshold ==
    \A r \in Req :
        Done200(r) =>
            (resp[r][1].json.smile <=> resp[r][1].json.score > 500)

\* A response with score exactly 0.5 and smile false.
C5_Witness ==
    \E r \in Req :
        /\ Done200(r)
        /\ resp[r][1].json.score = 500
        /\ resp[r][1].json.smile = FALSE

Structured(x) ==
    /\ DOMAIN x = {"status", "json"}
    /\ \/ x.status = 200 /\ DOMAIN x.json = {"smile", "score"}
       \/ x.status \in {400, 500} /\ DOMAIN x.json = {"error"}

C8_AtMostOneDetect ==
    Cardinality({r \in Req : pc[r] = "detecting"}) <= 1

AgreeOnEleven(L1, L2) == \A i \in ElevenIdx : L1.pt[i].y = L2.pt[i].y

C10_OnlyElevenYs ==
    \A r \in Req :
        (Done200(r) /\ HasFace(r)) =>
            \A L2 \in LandmarkSets :
                (Populated(L2) /\ AgreeOnEleven(FaceOf(r), L2)) =>
                    calculate_smile_score(FaceResult(L2))
                        = Returned(resp[r][1].json.score)

\* A scored landmark set and another one that differs from it in an
\* x-coordinate, in a point outside the eleven and in length.
C10_Witness ==
    \E r \in Req :
        /\ Done200(r) /\ HasFace(r)
        /\ resp[r][1].json.score = 500
        /\ \E L2 \in LandmarkSets :
              /\ Populated(L2) /\ AgreeOnEleven(FaceOf(r), L2)
              /\ L2.len # FaceOf(r).len
              /\ L2.pt[0].y # FaceOf(r).pt[0].y
              /\ L2.pt[61].x # FaceOf(r).pt[61].x

=============================================================================
